---- MODULE Spec2Model ----
(***************************************************************************)
(* Model of src/main.rs: a token evaluator for + and * with precedence,    *)
(* the exhaustive single-pair parenthesization search built on it, the     *)
(* renderer and the report.                                                *)
(*                                                                         *)
(* An i64 is a sequence of I64Bytes limbs, least significant first, in     *)
(* two's complement, so that products and sums keep their 64-bit width.    *)
(***************************************************************************)
EXTENDS Integers, Sequences, FiniteSets, TLC

VARIABLES tokens, target, overflow_checks, pc, start, end, results, output,
          trace, ev, r_i, with_paren

vars == <<tokens, target, overflow_checks, pc, start, end, results, output,
          trace, ev, r_i, with_paren>>

(***************************************************************************)
(* Bounds of the model.                                                    *)
(***************************************************************************)
MaxLen == 4

MaxEvalLen == 5

MaxRenderLen == 4

(***************************************************************************)
(* i64 arithmetic.                                                         *)
(***************************************************************************)
Byte == 256

I64Bytes == 8

RECURSIVE NatLimbs(_, _)
NatLimbs(k, n) ==
    IF n = 0 THEN <<>> ELSE <<k % Byte>> \o NatLimbs(k \div Byte, n - 1)

RECURSIVE AddFrom(_, _, _, _)
AddFrom(a, b, k, carry) ==
    IF k > Len(a) THEN <<>>
    ELSE LET s == a[k] + b[k] + carry
         IN  <<s % Byte>> \o AddFrom(a, b, k + 1, s \div Byte)

\* a + b modulo 256^Len(a), both of the same length
AddN(a, b) == AddFrom(a, b, 1, 0)

NotN(a) == [k \in 1..Len(a) |-> (Byte - 1) - a[k]]

NegN(a) == AddN(NotN(a), NatLimbs(1, Len(a)))

RECURSIVE Column(_, _, _, _)
Column(a, b, k, j) ==
    IF j > k THEN 0 ELSE a[j] * b[k + 1 - j] + Column(a, b, k, j + 1)

RECURSIVE MulFrom(_, _, _, _)
MulFrom(a, b, k, carry) ==
    IF k > Len(a) THEN <<>>
    ELSE LET s == Column(a, b, k, 1) + carry
         IN  <<s % Byte>> \o MulFrom(a, b, k + 1, s \div Byte)

\* a * b modulo 256^Len(a), both of the same length
MulN(a, b) == MulFrom(a, b, 1, 0)

IsNeg(a) == a[Len(a)] >= Byte \div 2

\* two's complement sign extension to n limbs
SignExt(a, n) ==
    [k \in 1..n |-> IF k <= Len(a) THEN a[k]
                    ELSE IF IsNeg(a) THEN Byte - 1 ELSE 0]

Low64(w) == SubSeq(w, 1, I64Bytes)

\* a value of any width lies in the i64 range
FitsI64(w) == w = SignExt(Low64(w), Len(w))

\* the i64 of a small integer literal
I64(k) == IF k >= 0 THEN NatLimbs(k, I64Bytes) ELSE NegN(NatLimbs(-k, I64Bytes))

I64_MAX == [k \in 1..I64Bytes |-> IF k = I64Bytes THEN Byte \div 2 - 1 ELSE Byte - 1]

I64_MIN == [k \in 1..I64Bytes |-> IF k = I64Bytes THEN Byte \div 2 ELSE 0]

\* a * b on i64: the wrapped product and whether the exact product left the range
MulI64(a, b) ==
    LET w == MulN(SignExt(a, 2 * I64Bytes), SignExt(b, 2 * I64Bytes))
    IN  [v |-> Low64(w), overflow |-> ~FitsI64(w)]

\* a + b on i64: the wrapped sum and whether the exact sum left the range
AddI64(a, b) ==
    LET w == AddN(SignExt(a, I64Bytes + 1), SignExt(b, I64Bytes + 1))
    IN  [v |-> Low64(w), overflow |-> ~FitsI64(w)]

(***************************************************************************)
(* Tokens and options.                                                     *)
(***************************************************************************)
Number(n) == <<"Number", n>>

Plus == <<"Plus">>

Mul == <<"Mul">>

IsNumber(t) == t[1] = "Number"

Some(v) == <<"Some", v>>

None == <<"None">>

IsSome(o) == o[1] = "Some"

\* the outcome of a call that panicked (arithmetic overflow with overflow checks on)
Panic == <<"Panic">>

(***************************************************************************)
(* evaluate_expression, one step per loop iteration.                       *)
(* i is the 0-based index of the code; toks[i + 1] is tokens[i].           *)
(***************************************************************************)
EvalStart(toks) ==
    [toks |-> toks, i |-> 0, terms |-> <<>>, current_product |-> None,
     expectation |-> "Number", status |-> "entry", ret |-> None, cause |-> ""]

Return(st, value, why) == [st EXCEPT !.status = "returned", !.ret = value, !.cause = why]

Abort(st, why) == [st EXCEPT !.status = "panicked", !.cause = why]

\* terms.into_iter().sum(): a left fold of + from 0; the wrapped sum and
\* whether some partial sum left the i64 range
RECURSIVE SumFrom(_, _, _)
SumFrom(terms, k, acc) ==
    IF k > Len(terms) THEN acc
    ELSE LET s == AddI64(acc.v, terms[k])
         IN  SumFrom(terms, k + 1, [v |-> s.v, overflow |-> acc.overflow \/ s.overflow])

SumI64(terms) == SumFrom(terms, 1, [v |-> I64(0), overflow |-> FALSE])

\* lines 86-103
EvalEntry(st) ==
    IF Len(st.toks) = 0 THEN Return(st, None, "empty")
    ELSE [st EXCEPT !.status = "loop"]

\* lines 107-117
ArmNumber(st) ==
    IF IsSome(st.current_product) THEN Return(st, None, "number_with_product")
    ELSE [st EXCEPT !.current_product = Some(st.toks[st.i + 1][2]),
                    !.expectation = "Operator",
                    !.i = st.i + 1]

\* a Plus that leaves the product in progress in place (no take())
ArmPlusKeep(st) ==
    IF IsSome(st.current_product)
    THEN [st EXCEPT !.terms = Append(st.terms, st.current_product[2]),
                    !.expectation = "Number",
                    !.i = st.i + 1]
    ELSE Return(st, None, "plus_without_product")

\* lines 120-130
ArmPlus(st) ==
    IF IsSome(st.current_product)
    THEN [st EXCEPT !.terms = Append(st.terms, st.current_product[2]),
                    !.current_product = None,
                    !.expectation = "Number",
                    !.i = st.i + 1]
    ELSE Return(st, None, "plus_without_product")

\* a Mul without precedence: it multiplies everything accumulated so far
ArmMulFlat(st, oc) ==
    IF ~IsSome(st.current_product) THEN Return(st, None, "mul_without_product")
    ELSE IF st.i + 1 >= Len(st.toks) THEN Return(st, None, "mul_at_end")
    ELSE IF IsNumber(st.toks[st.i + 2])
         THEN LET acc == SumI64(Append(st.terms, st.current_product[2]))
                  p == MulI64(acc.v, st.toks[st.i + 2][2])
              IN  IF (acc.overflow \/ p.overflow) /\ oc THEN Abort(st, "multiply_overflow")
                  ELSE [st EXCEPT !.terms = <<>>,
                                  !.current_product = Some(p.v),
                                  !.i = st.i + 2,
                                  !.expectation = "Operator"]
         ELSE Return(st, None, "mul_not_followed_by_number")

\* lines 133-151
ArmMul(st, oc) ==
    IF ~IsSome(st.current_product) THEN Return(st, None, "mul_without_product")
    ELSE IF st.i + 1 >= Len(st.toks) THEN Return(st, None, "mul_at_end")
    ELSE IF IsNumber(st.toks[st.i + 2])
         THEN LET p == MulI64(st.current_product[2], st.toks[st.i + 2][2])
              IN  IF p.overflow /\ oc THEN Abort(st, "multiply_overflow")
                  ELSE [st EXCEPT !.current_product = Some(p.v),
                                  !.i = st.i + 2,
                                  !.expectation = "Operator"]
         ELSE Return(st, None, "mul_not_followed_by_number")

\* lines 154-156
ArmOperatorUnexpected(st) == Return(st, None, "operator_unexpected")

\* lines 159-161
ArmNumberUnexpected(st) == Return(st, None, "number_unexpected")

\* lines 168-185
EvalFinish(st, oc) ==
    IF st.expectation = "Number" THEN Return(st, None, "ended_on_operator")
    ELSE IF ~IsSome(st.current_product) THEN Return(st, None, "no_product_at_end")
    ELSE LET all == Append(st.terms, st.current_product[2])
             s == SumI64(all)
         IN  IF s.overflow /\ oc THEN Abort([st EXCEPT !.terms = all], "add_overflow")
             ELSE Return([st EXCEPT !.terms = all], Some(s.v), "")

\* the match of line 105
EvalArm(st, oc) ==
    LET t == st.toks[st.i + 1]
    IN  CASE IsNumber(t) /\ st.expectation = "Number" -> ArmNumber(st)
          [] t = Plus /\ st.expectation = "Operator" -> ArmPlus(st)
          [] t = Mul /\ st.expectation = "Operator" -> ArmMul(st, oc)
          [] ~IsNumber(t) /\ st.expectation = "Number" -> ArmOperatorUnexpected(st)
          [] IsNumber(t) /\ st.expectation = "Operator" -> ArmNumberUnexpected(st)

EvalStep(st, oc) ==
    IF st.status = "entry" THEN EvalEntry(st)
    ELSE IF st.i < Len(st.toks) THEN EvalArm(st, oc)
    ELSE EvalFinish(st, oc)

RECURSIVE EvalRun(_, _)
EvalRun(st, oc) ==
    IF st.status \in {"returned", "panicked"} THEN st ELSE EvalRun(EvalStep(st, oc), oc)

\* evaluate_expression(tokens) in a build with overflow checks on (oc) or off:
\* Some(v), None or Panic
evaluate_expression(toks, oc) ==
    LET st == EvalRun(EvalStart(toks), oc)
    IN  IF st.status = "panicked" THEN Panic ELSE st.ret

(***************************************************************************)
(* Strings are sequences of one-character strings.                         *)
(***************************************************************************)
DigitChar == <<"0", "1", "2", "3", "4", "5", "6", "7", "8", "9">>

\* the remainder carried into limb k when dividing u by ten from the top limb down
RECURSIVE CarryIn(_, _)
CarryIn(u, k) ==
    IF k = Len(u) THEN 0 ELSE (CarryIn(u, k + 1) * Byte + u[k + 1]) % 10

Quot10(u) == [k \in 1..Len(u) |-> (CarryIn(u, k) * Byte + u[k]) \div 10]

Rem10(u) == (CarryIn(u, 1) * Byte + u[1]) % 10

\* the decimal digits of an unsigned value, most significant first, none for zero
RECURSIVE DecimalDigits(_)
DecimalDigits(u) ==
    IF u = NatLimbs(0, Len(u)) THEN <<>>
    ELSE DecimalDigits(Quot10(u)) \o <<DigitChar[Rem10(u) + 1]>>

\* i64::to_string
to_string(n) ==
    IF n = I64(0) THEN <<"0">>
    ELSE IF IsNeg(n) THEN <<"-">> \o DecimalDigits(NegN(n))
    ELSE DecimalDigits(n)

\* lines 213-220
Piece(t) ==
    IF IsNumber(t) THEN to_string(t[2])
    ELSE IF t = Plus THEN <<"+">>
    ELSE <<"*">>

\* lines 229-238: the loop body for piece p at 0-based index i
PushPiece(wp, p, i, s, e) ==
    LET a == IF i = s THEN Append(wp, "(") ELSE wp
        b == IF Len(a) # 0 /\ a[Len(a)] # "(" THEN Append(a, " ") ELSE a
        c == b \o p
    IN  IF i = e THEN Append(c, ")") ELSE c

RECURSIVE RenderFrom(_, _, _, _, _)
RenderFrom(toks, i, wp, s, e) ==
    IF i >= Len(toks) THEN wp
    ELSE RenderFrom(toks, i + 1, PushPiece(wp, Piece(toks[i + 1]), i, s, e), s, e)

\* lines 209-242
insert_parentheses(toks, s, e) == RenderFrom(toks, 0, <<>>, s, e)

(***************************************************************************)
(* The search.                                                             *)
(***************************************************************************)
\* a check that asks for an operator only
is_valid_operator_only(toks, s, e) == \E i \in s..e : ~IsNumber(toks[i + 1])

\* lines 71-82
is_valid_subexpression(toks, s, e) ==
    LET has_operator == \E i \in s..e : ~IsNumber(toks[i + 1])
        has_number == \E i \in s..e : IsNumber(toks[i + 1])
    IN  has_operator /\ has_number

\* a substitution that keeps the token at end
SubstituteKeepEnd(toks, s, e, v) ==
    SubSeq(toks, 1, s) \o <<Number(v)>> \o SubSeq(toks, e + 1, Len(toks))

\* lines 197-200
Substitute(toks, s, e, v) ==
    SubSeq(toks, 1, s) \o <<Number(v)>> \o SubSeq(toks, e + 2, Len(toks))

\* lines 190-205
evaluate_with_parentheses(toks, s, e, oc) ==
    LET sub_value == evaluate_expression(SubSeq(toks, s + 1, e + 1), oc)
    IN  IF ~IsSome(sub_value) THEN sub_value
        ELSE evaluate_expression(Substitute(toks, s, e, sub_value[2]), oc)

\* the order of String: byte by byte, a proper prefix first
CharCode(c) ==
    CASE c = " " -> 32 [] c = "(" -> 40 [] c = ")" -> 41 [] c = "*" -> 42
      [] c = "+" -> 43 [] c = "-" -> 45
      [] OTHER -> 47 + CHOOSE d \in 1..10 : DigitChar[d] = c

RECURSIVE StrLess(_, _)
StrLess(x, y) ==
    IF Len(y) = 0 THEN FALSE
    ELSE IF Len(x) = 0 THEN TRUE
    ELSE IF x[1] = y[1] THEN StrLess(Tail(x), Tail(y))
    ELSE CharCode(x[1]) < CharCode(y[1])

RECURSIVE Insert(_, _)
Insert(sorted, x) ==
    IF Len(sorted) = 0 THEN <<x>>
    ELSE IF StrLess(x, sorted[1]) THEN <<x>> \o sorted
    ELSE <<sorted[1]>> \o Insert(Tail(sorted), x)

\* no sort at all
SortNot(v) == v

\* line 37: results.sort()
RECURSIVE Sort(_)
Sort(v) == IF Len(v) = 0 THEN <<>> ELSE Insert(Sort(Tail(v)), v[1])

\* line 38: results.dedup() removes consecutive repeats
RECURSIVE Dedup(_)
Dedup(v) ==
    IF Len(v) <= 1 THEN v
    ELSE IF v[1] = v[2] THEN Dedup(Tail(v))
    ELSE <<v[1]>> \o Dedup(Tail(v))

\* lines 41-44
NotFoundLine(t) ==
    <<"No single-pair parenthetical placement found that results in ">>
        \o to_string(t) \o <<".">>

\* line 46
FoundLine(t) == <<"Found the following ways to achieve ">> \o to_string(t) \o <<":">>

\* lines 40-50
Report(res, t) == IF Len(res) = 0 THEN <<NotFoundLine(t)>> ELSE <<FoundLine(t)>> \o res

(***************************************************************************)
(* Inputs.                                                                 *)
(***************************************************************************)
TokenSeqs(alphabet, n) == UNION {[1..k -> alphabet] : k \in 0..n}

\* lines 12-13: tokenize("1 + 2 * 3 + 4 * 5 + 6 * 7 + 8 * 9")
HardTokens ==
    <<Number(I64(1)), Plus, Number(I64(2)), Mul, Number(I64(3)), Plus,
      Number(I64(4)), Mul, Number(I64(5)), Plus, Number(I64(6)), Mul,
      Number(I64(7)), Plus, Number(I64(8)), Mul, Number(I64(9))>>

\* line 15
HardTarget == I64(479)

MainAlphabet == {Number(I64(0)), Number(I64(1)), Number(I64_MAX), Plus, Mul}

\* longer inputs: one where some ranges match and some do not, one where
\* every range matches
MainExamples ==
    {<<Number(I64(1)), Plus, Number(I64(1)), Mul, Number(I64(0))>>,
     <<Number(I64(1)), Mul, Number(I64(1)), Mul, Number(I64(1))>>}

MainTargets == {I64(0), I64(1)}

EvalAlphabet == {Number(I64(1)), Number(I64(2)), Number(I64(-1)), Number(I64_MAX), Plus, Mul}

\* the sequences the evaluator's contract is stated on
EvalExamples ==
    {<<Number(I64(2)), Plus, Number(I64(3)), Mul, Number(I64(4))>>,
     <<Plus>>,
     <<Number(I64(1)), Plus>>,
     <<Number(I64(1)), Number(I64(2))>>,
     <<Mul, Number(I64(3))>>,
     <<Number(I64(1)), Mul, Plus>>}

RenderAlphabet == {Number(I64(1)), Number(I64(-12)), Plus, Mul}

RenderExample ==
    <<Number(I64(1)), Plus, Number(I64(2)), Mul, Number(I64(3))>>

(***************************************************************************)
(* main: the two nested loops and the report.                              *)
(***************************************************************************)
\* lines 24-31: one pass of the inner loop's body
Body(toks, s, e, t, oc) ==
    IF ~is_valid_subexpression(toks, s, e)
    THEN [panic |-> FALSE, evaluated |-> FALSE, matched |-> FALSE]
    ELSE LET value == evaluate_with_parentheses(toks, s, e, oc)
         IN  [panic |-> value = Panic, evaluated |-> TRUE, matched |-> value = Some(t)]

\* line 20: the head of the outer loop
OuterLoop ==
    /\ pc = "outer"
    /\ IF start < Len(tokens)
       THEN /\ end' = start + 1
            /\ pc' = "inner"
       ELSE /\ end' = end
            /\ pc' = "report"
    /\ UNCHANGED <<tokens, target, overflow_checks, start, results, output, trace,
                   ev, r_i, with_paren>>

\* lines 21-33: one iteration of the inner loop
InnerBody ==
    /\ pc = "inner"
    /\ end < Len(tokens)
    /\ LET b == Body(tokens, start, end, target, overflow_checks)
       IN  /\ trace' = Append(trace, [start |-> start, end |-> end,
                                      evaluated |-> b.evaluated,
                                      rendered |-> b.matched])
           /\ results' = IF b.matched
                         THEN Append(results, insert_parentheses(tokens, start, end))
                         ELSE results
           /\ IF b.panic
              THEN pc' = "panicked" /\ end' = end
              ELSE pc' = "inner" /\ end' = end + 1
    /\ UNCHANGED <<tokens, target, overflow_checks, start, output, ev, r_i, with_paren>>

\* line 21: the inner range is exhausted
InnerExit ==
    /\ pc = "inner"
    /\ end >= Len(tokens)
    /\ start' = start + 1
    /\ pc' = "outer"
    /\ UNCHANGED <<tokens, target, overflow_checks, end, results, output, trace,
                   ev, r_i, with_paren>>

\* lines 36-50
ReportResults ==
    /\ pc = "report"
    /\ results' = Dedup(Sort(results))
    /\ output' = Report(results', target)
    /\ pc' = "done"
    /\ UNCHANGED <<tokens, target, overflow_checks, start, end, trace, ev, r_i,
                   with_paren>>

Init ==
    /\ \/ /\ tokens \in TokenSeqs(MainAlphabet, MaxLen) \cup MainExamples
          /\ target \in MainTargets
       \/ tokens = HardTokens /\ target = HardTarget
    /\ overflow_checks \in BOOLEAN
    /\ pc = "outer"
    /\ start = 0
    /\ end = 0
    /\ results = <<>>
    /\ output = <<>>
    /\ trace = <<>>
    /\ ev = EvalStart(<<>>)
    /\ r_i = 0
    /\ with_paren = <<>>

Next == OuterLoop \/ InnerBody \/ InnerExit \/ ReportResults

Spec == Init /\ [][Next]_vars

(***************************************************************************)
(* evaluate_expression on its own, one action per arm.                     *)
(***************************************************************************)
EvalIdle == UNCHANGED <<tokens, target, overflow_checks, pc, start, end, results,
                        output, trace, r_i, with_paren>>

AtToken == ev.status = "loop" /\ ev.i < Len(ev.toks)

Entry ==
    /\ ev.status = "entry"
    /\ ev' = EvalStep(ev, overflow_checks)
    /\ EvalIdle

GotNumber ==
    /\ AtToken /\ IsNumber(ev.toks[ev.i + 1]) /\ ev.expectation = "Number"
    /\ ev' = EvalStep(ev, overflow_checks)
    /\ EvalIdle

GotPlus ==
    /\ AtToken /\ ev.toks[ev.i + 1] = Plus /\ ev.expectation = "Operator"
    /\ ev' = EvalStep(ev, overflow_checks)
    /\ EvalIdle

GotMul ==
    /\ AtToken /\ ev.toks[ev.i + 1] = Mul /\ ev.expectation = "Operator"
    /\ ev' = EvalStep(ev, overflow_checks)
    /\ EvalIdle

OperatorUnexpected ==
    /\ AtToken /\ ~IsNumber(ev.toks[ev.i + 1]) /\ ev.expectation = "Number"
    /\ ev' = EvalStep(ev, overflow_checks)
    /\ EvalIdle

NumberUnexpected ==
    /\ AtToken /\ IsNumber(ev.toks[ev.i + 1]) /\ ev.expectation = "Operator"
    /\ ev' = EvalStep(ev, overflow_checks)
    /\ EvalIdle

Finish ==
    /\ ev.status = "loop" /\ ev.i >= Len(ev.toks)
    /\ ev' = EvalStep(ev, overflow_checks)
    /\ EvalIdle

InitEval ==
    /\ ev \in {EvalStart(t) : t \in TokenSeqs(EvalAlphabet, MaxEvalLen) \cup EvalExamples}
    /\ overflow_checks \in BOOLEAN
    /\ tokens = <<>>
    /\ target = I64(0)
    /\ pc = "eval"
    /\ start = 0
    /\ end = 0
    /\ results = <<>>
    /\ output = <<>>
    /\ trace = <<>>
    /\ r_i = 0
    /\ with_paren = <<>>

NextEval ==
    Entry \/ GotNumber \/ GotPlus \/ GotMul \/ OperatorUnexpected \/ NumberUnexpected
        \/ Finish

SpecEval == InitEval /\ [][NextEval]_vars

(***************************************************************************)
(* insert_parentheses on its own, one action per piece.                    *)
(***************************************************************************)
RenderPiece ==
    /\ pc = "render"
    /\ r_i < Len(tokens)
    /\ with_paren' = PushPiece(with_paren, Piece(tokens[r_i + 1]), r_i, start, end)
    /\ r_i' = r_i + 1
    /\ UNCHANGED <<tokens, target, overflow_checks, pc, start, end, results, output,
                   trace, ev>>

RenderReturn ==
    /\ pc = "render"
    /\ r_i >= Len(tokens)
    /\ pc' = "rendered"
    /\ UNCHANGED <<tokens, target, overflow_checks, start, end, results, output,
                   trace, ev, r_i, with_paren>>

InitRender ==
    /\ tokens \in TokenSeqs(RenderAlphabet, MaxRenderLen) \cup {RenderExample}
    /\ start \in 0..(Len(tokens) - 1)
    /\ end \in (start + 1)..(Len(tokens) - 1)
    /\ pc = "render"
    /\ r_i = 0
    /\ with_paren = <<>>
    /\ target = I64(0)
    /\ overflow_checks = FALSE
    /\ results = <<>>
    /\ output = <<>>
    /\ trace = <<>>
    /\ ev = EvalStart(<<>>)

NextRender == RenderPiece \/ RenderReturn

SpecRender == InitRender /\ [][NextRender]_vars

(***************************************************************************)
(* The standard arithmetic value, computed exactly: numbers are widened    *)
(* to w limbs, wide enough that no product or sum of the sequence wraps.   *)
(***************************************************************************)
\* Number (op Number)*
WellFormed(toks) ==
    /\ Len(toks) % 2 = 1
    /\ \A k \in 1..Len(toks) : IsNumber(toks[k]) <=> k % 2 = 1

StdWidth(toks) == I64Bytes * ((Len(toks) + 1) \div 2) + 1

\* the exact product of the *-joined numbers of the term of position j, up to j
RECURSIVE RunProd(_, _, _)
RunProd(toks, j, w) ==
    IF j = 1 \/ toks[j - 1] = Plus THEN SignExt(toks[j][2], w)
    ELSE MulN(RunProd(toks, j - 2, w), SignExt(toks[j][2], w))

TermEnd(toks, j) == j = Len(toks) \/ toks[j + 1] = Plus

\* the exact sum of the terms that end at or before position j
RECURSIVE PartialSum(_, _, _)
PartialSum(toks, j, w) ==
    IF j < 1 THEN NatLimbs(0, w)
    ELSE IF TermEnd(toks, j) THEN AddN(PartialSum(toks, j - 2, w), RunProd(toks, j, w))
    ELSE PartialSum(toks, j - 2, w)

StdValueW(toks, w) == PartialSum(toks, Len(toks), w)

StdValue(toks) == StdValueW(toks, StdWidth(toks))

\* some running product or some partial sum of terms lies outside the i64 range
StdOverflows(toks) ==
    \E j \in 1..Len(toks) :
        /\ j % 2 = 1
        /\ \/ ~FitsI64(RunProd(toks, j, StdWidth(toks)))
           \/ TermEnd(toks, j) /\ ~FitsI64(PartialSum(toks, j, StdWidth(toks)))

EvalDone == ev.status \in {"returned", "panicked"}

(***************************************************************************)
(* Claims on evaluate_expression (SpecEval).                               *)
(***************************************************************************)
\* C1, as stated: on every well-formed sequence Number (op Number)* what the
\* evaluator returns is a value, never absence, and it is the standard
\* arithmetic value with * binding tighter than +.
C1_Original ==
    (WellFormed(ev.toks) /\ ev.status = "returned") =>
        /\ IsSome(ev.ret)
        /\ SignExt(ev.ret[2], StdWidth(ev.toks)) = StdValue(ev.toks)

\* C1, amended: on every well-formed sequence what the evaluator returns is a
\* value, never absence, and it is the standard arithmetic value (* tighter
\* than +) reduced modulo 2^64 into the i64 range; the call fails to return
\* only by panicking, which happens exactly when overflow checks are on and a
\* running product or a partial sum of terms leaves the i64 range.
C1_Amended ==
    (WellFormed(ev.toks) /\ EvalDone) =>
        /\ ev.status = "returned" => ev.ret = Some(Low64(StdValue(ev.toks)))
        /\ (ev.status = "panicked") <=> (overflow_checks /\ StdOverflows(ev.toks))

C1_Witness ==
    /\ ev.status = "returned"
    /\ ev.toks = <<Number(I64(2)), Plus, Number(I64(3)), Mul, Number(I64(4))>>
    /\ ev.ret = Some(I64(14))

\* C2: on every sequence that is empty or not of the shape Number (op Number)*
\* the evaluator returns absence: never a number, never a crash.
C2_Claim ==
    ~WellFormed(ev.toks) =>
        /\ ev.status # "panicked"
        /\ ev.status = "returned" => ev.ret = None

\* C9: arithmetic is overflow-permitting: the evaluator never aborts, and when
\* a product or the sum leaves the i64 range it still returns the value
\* wrapped modulo 2^64.
C9_Claim ==
    /\ ev.status # "panicked"
    /\ (ev.status = "returned" /\ WellFormed(ev.toks) /\ StdOverflows(ev.toks)) =>
           ev.ret = Some(Low64(StdValue(ev.toks)))

\* C10: throughout the walk i never exceeds the length, a product is in
\* progress exactly when an operator is expected, and no failure is ever caused
\* by the guards on the product (lines 112, 126, 137, 178).
C10_WalkInvariant ==
    /\ ev.i <= Len(ev.toks)
    /\ ev.status = "loop" => (IsSome(ev.current_product) <=> ev.expectation = "Operator")
    /\ ev.cause \notin {"number_with_product", "plus_without_product",
                        "mul_without_product", "no_product_at_end"}

C10_Witness ==
    /\ ev.status = "loop"
    /\ Len(ev.toks) = 5
    /\ ev.i = Len(ev.toks)
    /\ ev.toks[2] = Plus
    /\ ev.toks[4] = Mul
    /\ IsSome(ev.current_product)

(***************************************************************************)
(* Claims on the search and the report (Spec).                             *)
(***************************************************************************)
Ranges(toks) ==
    {r \in (0..(Len(toks) - 1)) \X (0..(Len(toks) - 1)) : r[1] < r[2]}

HasNumberAndOperator(toks, s, e) ==
    /\ \E k \in s..e : IsNumber(toks[k + 1])
    /\ \E k \in s..e : ~IsNumber(toks[k + 1])

\* the ranges of conditions (i), (ii) and (iii)
Matching(toks, t, oc) ==
    {r \in Ranges(toks) :
        /\ HasNumberAndOperator(toks, r[1], r[2])
        /\ LET v == evaluate_expression(SubSeq(toks, r[1] + 1, r[2] + 1), oc)
           IN  /\ IsSome(v)
               /\ evaluate_expression(SubSeq(toks, 1, r[1]) \o <<Number(v[2])>>
                                        \o SubSeq(toks, r[2] + 2, Len(toks)), oc)
                      = Some(t)}

\* the exact value of the sequence with positions s..e parenthesized
TrueValue(toks, s, e) ==
    LET w == StdWidth(toks)
        inner == StdValueW(SubSeq(toks, s + 1, e + 1), w)
    IN  StdValueW(SubSeq(toks, 1, s) \o <<Number(inner)>>
                      \o SubSeq(toks, e + 2, Len(toks)), w)

Reported == {results[k] : k \in 1..Len(results)}

C5_RangesValid ==
    \A k \in 1..Len(trace) :
        (trace[k].evaluated \/ trace[k].rendered) =>
            /\ 0 <= trace[k].start
            /\ trace[k].start < trace[k].end
            /\ trace[k].end < Len(tokens)
            /\ HasNumberAndOperator(tokens, trace[k].start, trace[k].end)

C5_Witness ==
    /\ pc = "done"
    /\ \E k \in 1..Len(trace) : trace[k].evaluated
    /\ \E k \in 1..Len(trace) :
           /\ ~trace[k].evaluated
           /\ \A j \in trace[k].start..trace[k].end : ~IsNumber(tokens[j + 1])
    /\ \E k \in 1..Len(trace) :
           /\ ~trace[k].evaluated
           /\ \A j \in trace[k].start..trace[k].end : IsNumber(tokens[j + 1])

\* C6: on the hard-coded expression the evaluator returns 141, and with
\* target 479 the search ends with a non-empty result set that is reported.
C6_HardCoded ==
    (tokens = HardTokens /\ target = HardTarget /\ pc = "done") =>
        /\ evaluate_expression(tokens, overflow_checks) = Some(I64(141))
        /\ Len(results) >= 1
        /\ output = <<FoundLine(HardTarget)>> \o results

C6_Witness ==
    /\ tokens = HardTokens
    /\ target = HardTarget
    /\ pc = "done"
    /\ insert_parentheses(HardTokens, 4, 10) \in Reported

\* the pair after (s, e) in the order of the two loops, over n tokens
PairAfter(s, e, n) == IF e + 1 < n THEN <<s, e + 1>> ELSE <<s + 1, s + 2>>

HasPairAfter(s, e, n) == e + 1 < n \/ s + 2 < n

Visited(k) == <<trace[k].start, trace[k].end>>

\* C7: a candidate that fails to evaluate is skipped without aborting: the
\* pairs start < end are visited in order with none left out, no run aborts,
\* and a finished run has printed its report.
C7_Claim ==
    /\ \A k \in 1..Len(trace) :
           IF k = 1 THEN Visited(k) = <<0, 1>>
           ELSE Visited(k) = PairAfter(trace[k - 1].start, trace[k - 1].end, Len(tokens))
    /\ pc = "done" =>
           /\ Len(output) >= 1
           /\ IF Len(tokens) < 2 THEN trace = <<>>
              ELSE /\ trace # <<>>
                   /\ ~HasPairAfter(trace[Len(trace)].start, trace[Len(trace)].end,
                                    Len(tokens))
    /\ pc # "panicked"

\* the renderings of the ranges that matched the target
MatchedRenderings ==
    {insert_parentheses(tokens, trace[k].start, trace[k].end) :
        k \in {j \in 1..Len(trace) : trace[j].rendered}}

\* C8: the report is the not-found line alone exactly when no range matched,
\* and otherwise the header followed by one line per distinct matching
\* rendering, in strictly increasing order, none repeated, none left out.
C8_Report ==
    pc = "done" =>
        IF MatchedRenderings = {}
        THEN output = <<NotFoundLine(target)>>
        ELSE /\ output[1] = FoundLine(target)
             /\ Len(output) = 1 + Cardinality(MatchedRenderings)
             /\ {output[k] : k \in 2..Len(output)} = MatchedRenderings
             /\ \A k \in 2..(Len(output) - 1) : StrLess(output[k], output[k + 1])

C8_Witness ==
    /\ pc = "done"
    /\ Len(output) = 4
    /\ StrLess(output[2], output[3])
    /\ StrLess(output[3], output[4])

(***************************************************************************)
(* Claims on insert_parentheses (SpecRender).                              *)
(***************************************************************************)
RECURSIVE JoinWithSpaces(_)
JoinWithSpaces(ps) ==
    IF Len(ps) = 0 THEN <<>>
    ELSE IF Len(ps) = 1 THEN ps[1]
    ELSE ps[1] \o <<" ">> \o JoinWithSpaces(Tail(ps))

\* the literals separated by single spaces, "(" glued before the literal at
\* s and ")" glued after the literal at e
Parenthesized(toks, s, e) ==
    JoinWithSpaces([k \in 1..Len(toks) |->
        (IF k - 1 = s THEN <<"(">> ELSE <<>>) \o Piece(toks[k])
            \o (IF k - 1 = e THEN <<")">> ELSE <<>>)])

\* C4: the rendering of a range is the token literals separated by single
\* spaces, with "(" immediately before the literal at start and ")"
\* immediately after the literal at end; range (1,3) over [1, +, 2, *, 3]
\* renders as "1 (+ 2 *) 3".
C4_Claim ==
    pc = "rendered" =>
        /\ with_paren = Parenthesized(tokens, start, end)
        /\ (tokens = RenderExample /\ start = 1 /\ end = 3) =>
               with_paren = <<"1", " ", "(", "+", " ", "2", " ", "*", ")", " ", "3">>

====
